---- MODULE Spec2Model ----
(***************************************************************************)
(* Model of the two FastAPI services of the repository:                    *)
(*   src/app.py     /v1/audio/transcriptions  (speech_to_text)             *)
(*                  /v1/chat/completions      (chat_completions)           *)
(*                  /v1/audio/speech          (text_to_speech)             *)
(*   src/oldapp.py  /process-audio            (process_audio)              *)
(* Requests are handled by coroutines of one process; they share only the  *)
(* temporary directory.  The three providers (speech recognition, text     *)
(* generation, speech synthesis) are black boxes: each call either returns *)
(* a value or raises.                                                      *)
(***************************************************************************)
EXTENDS Naturals, Sequences, FiniteSets, TLC

VARIABLES
    pc,          \* position of each request's handler
    endpoint,    \* which handler serves the request
    audio_len,   \* number of bytes of the uploaded audio
    messages,    \* ChatPayload.messages
    tts_input,   \* TTSPayload.input
    disk,        \* temporary directory: path -> request whose file is there
    temp_audio,  \* temp_audio_path / temp_audio.name of the handler
    text_input,  \* local text_input of the handler
    full_prompt, \* the contents handed to generate_content
    response,    \* local response: what generate_content returned
    text_output, \* local text_output of the handler
    calls,       \* provider calls made by the request, in order
    exc,         \* the exception caught by the handler's except clause
    resp         \* the response the handler returns

vars == <<pc, endpoint, audio_len, messages, tts_input, disk, temp_audio,
          text_input, full_prompt, response, text_output, calls, exc, resp>>

----------------------------------------------------------------------------
(* Bounds *)

NumReqs == 2
NumPaths == 2
MaxMsgs == 3

Reqs == 1..NumReqs
Paths == 1..NumPaths

NoOwner == 0
NoPath == 0

----------------------------------------------------------------------------
(* Values *)

\* Uploaded audio sizes in bytes: one byte less than half a second of
\* 16 kHz mono 16-bit samples, and exactly half a second.
AudioLens == {15999, 16000}

RecognizedTexts == {"turn on the light"}

Roles == {"system", "user", "assistant"}
Contents == {"Be terse.", "Hi"}
ChatMessage == [role : Roles, content : Contents]

Msg(r, c) == [role |-> r, content |-> c]

\* Payloads the chat endpoint receives in the service-wide specification.
ChatSamples ==
    { <<>>,
      <<Msg("system", "Be terse."), Msg("user", "Hi")>>,
      <<Msg("user", "Hi"), Msg("assistant", "Be terse.")>> }

SeqsUpTo(S, n) == UNION {[1..k -> S] : k \in 0..n}

TtsInputs == {"Hello"}

\* A response object of the generation provider: it may or may not expose
\* a text attribute; str(response) is its representation.
GenResponses ==
    { [has_text |-> TRUE,  text |-> "Sure.", repr |-> "GenerateContentResponse(...)"],
      [has_text |-> FALSE, text |-> "",      repr |-> "GenerateContentResponse(...)"] }
NoResponse == [has_text |-> FALSE, text |-> "", repr |-> ""]

\* Exceptions, by class.
Exception(type, msg) == [type |-> type, msg |-> msg]
NoExc == Exception("none", "")
UnknownValueError == Exception("UnknownValueError", "")
RequestError == Exception("RequestError", "recognition connection failed")
SttOtherError == Exception("ValueError", "Audio file could not be read")
IOError == Exception("OSError", "No space left on device")
GenError == Exception("ClientError", "429 RESOURCE_EXHAUSTED")
TtsError == Exception("gTTSError", "Failed to connect")

Call(prov, arg) == [prov |-> prov, arg |-> arg]

Response(status, media, kind, val) ==
    [status |-> status, media |-> media, kind |-> kind, val |-> val]
NoResp == Response(0, "none", "none", "")

JSONResponse(kind, val, status) == Response(status, "application/json", kind, val)

\* The MP3 bytes the synthesis provider returns for a text.
Mp3(text) == "mp3<" \o text \o ">"

----------------------------------------------------------------------------
(* Pure parts of the handlers *)

DefaultPrompt == "You are a helpful assistant."

\* Variant of speech_to_text_except with the generic clause tried first.
speech_to_text_except_generic(e) ==
    JSONResponse("error", "Internal Server Error: " \o e.msg, 500)

\* app.py 69-77: the except clauses of speech_to_text.
speech_to_text_except(e) ==
    IF e.type = "UnknownValueError"
    THEN JSONResponse("error", "Speech could not be understood.", 400)
    ELSE IF e.type = "RequestError"
    THEN JSONResponse("error", "Speech recognition API error: " \o e.msg, 500)
    ELSE JSONResponse("error", "Internal Server Error: " \o e.msg, 500)

\* oldapp.py 56-64: the except clauses of process_audio.
process_audio_except(e) ==
    IF e.type = "UnknownValueError"
    THEN JSONResponse("error", "Speech could not be understood.", 400)
    ELSE IF e.type = "RequestError"
    THEN JSONResponse("error", "Speech recognition API error: " \o e.msg, 500)
    ELSE JSONResponse("error", "Internal Server Error: " \o e.msg, 500)

\* Variant of chat_completions_except without the status code.
chat_completions_except_ok(e) == JSONResponse("error", e.msg, 200)

\* app.py 132-134: the except clause of chat_completions.
chat_completions_except(e) == JSONResponse("error", e.msg, 500)

\* app.py 160-162: the except clause of text_to_speech.
text_to_speech_except(e) == JSONResponse("error", e.msg, 500)

\* app.py 94-98: the loop over the messages, left at the first system one.
RECURSIVE system_prompt_from(_, _)
system_prompt_from(msgs, i) ==
    IF i > Len(msgs) THEN DefaultPrompt
    ELSE IF msgs[i].role = "system" THEN msgs[i].content
    ELSE system_prompt_from(msgs, i + 1)

system_prompt(msgs) == system_prompt_from(msgs, 1)

\* Variant of user_prompt that takes the latest message of the user,
\* wherever it stands.
user_prompt_latest_user(msgs) ==
    LET users == {i \in 1..Len(msgs) : msgs[i].role = "user"} IN
    IF users = {} THEN "No user message found."
    ELSE msgs[CHOOSE i \in users : \A j \in users : j <= i].content

\* app.py 101-103: the last message, when the user sent it.
user_prompt(msgs) ==
    IF msgs # <<>> /\ msgs[Len(msgs)].role = "user"
    THEN msgs[Len(msgs)].content
    ELSE "No user message found."

\* app.py 107
chat_full_prompt(msgs) == system_prompt(msgs) \o "\n\nUser: " \o user_prompt(msgs)

\* oldapp.py 37
process_audio_contents(prompt, text) == prompt \o "\nUser said: " \o text

\* Variant of getattr_text without the default.
getattr_text_strict(obj) == obj.text

\* getattr(response, "text", str(response)), app.py 116 and oldapp.py 40.
getattr_text(obj) ==
    IF obj.has_text THEN obj.text ELSE obj.repr

\* Variant of mkstemp with one fixed file name.
mkstemp_fixed_name(d) == {1}

\* tempfile.NamedTemporaryFile(delete=False): the names it may create, none
\* of which exists yet (the file is opened with O_EXCL).
mkstemp(d) == {p \in Paths : d[p] = NoOwner}

\* os.path.exists(path)
exists(d, path) == d[path] # NoOwner

\* os.remove(path)
remove(d, path) == [d EXCEPT ![path] = NoOwner]

----------------------------------------------------------------------------
(* State *)

Init ==
    /\ pc = [r \in Reqs |-> "idle"]
    /\ endpoint = [r \in Reqs |-> "none"]
    /\ audio_len = [r \in Reqs |-> 0]
    /\ messages = [r \in Reqs |-> <<>>]
    /\ tts_input = [r \in Reqs |-> ""]
    /\ disk = [p \in Paths |-> NoOwner]
    /\ temp_audio = [r \in Reqs |-> NoPath]
    /\ text_input = [r \in Reqs |-> ""]
    /\ full_prompt = [r \in Reqs |-> ""]
    /\ response = [r \in Reqs |-> NoResponse]
    /\ text_output = [r \in Reqs |-> ""]
    /\ calls = [r \in Reqs |-> <<>>]
    /\ exc = [r \in Reqs |-> NoExc]
    /\ resp = [r \in Reqs |-> NoResp]

Goto(r, label) == pc' = [pc EXCEPT ![r] = label]

\* Requests are numbered in the order they arrive.
NextToArrive(r) == pc[r] = "idle" /\ \A q \in Reqs : q < r => pc[q] # "idle"

inputs == <<audio_len, messages, tts_input>>
locals == <<temp_audio, text_input, full_prompt, response, text_output>>

----------------------------------------------------------------------------
(* Arrival of a request at one of the four endpoints *)

ArriveTranscription(r) ==
    /\ NextToArrive(r)
    /\ endpoint' = [endpoint EXCEPT ![r] = "transcriptions"]
    /\ \E n \in AudioLens : audio_len' = [audio_len EXCEPT ![r] = n]
    /\ Goto(r, "stt_open")
    /\ UNCHANGED <<messages, tts_input, disk, locals, calls, exc, resp>>

ArriveProcessAudio(r) ==
    /\ NextToArrive(r)
    /\ endpoint' = [endpoint EXCEPT ![r] = "process-audio"]
    /\ \E n \in AudioLens : audio_len' = [audio_len EXCEPT ![r] = n]
    /\ Goto(r, "pa_open")
    /\ UNCHANGED <<messages, tts_input, disk, locals, calls, exc, resp>>

ArriveChat(r) ==
    /\ NextToArrive(r)
    /\ endpoint' = [endpoint EXCEPT ![r] = "chat"]
    /\ \E m \in ChatSamples : messages' = [messages EXCEPT ![r] = m]
    /\ Goto(r, "chat_build")
    /\ UNCHANGED <<audio_len, tts_input, disk, locals, calls, exc, resp>>

ArriveSpeech(r) ==
    /\ NextToArrive(r)
    /\ endpoint' = [endpoint EXCEPT ![r] = "speech"]
    /\ \E t \in TtsInputs : tts_input' = [tts_input EXCEPT ![r] = t]
    /\ Goto(r, "tts_synthesize")
    /\ UNCHANGED <<audio_len, messages, disk, locals, calls, exc, resp>>

----------------------------------------------------------------------------
(* speech_to_text, app.py 42-81.  The handler is suspended only at its     *)
(* await; the steps below are finer, so that every interleaving of the     *)
(* event loop is one of the model.  An except clause and the finally       *)
(* clause run in the step that raises or returns.                          *)

\* app.py 78-81: the disk after the finally clause.
speech_to_text_finally(d, path) ==
    IF path # NoPath /\ exists(d, path) THEN remove(d, path) ELSE d

\* app.py 67-81: the response is built, the finally clause runs, the
\* handler returns and its local names are gone.
speech_to_text_return(r, e, rsp) ==
    /\ exc' = [exc EXCEPT ![r] = e]
    /\ resp' = [resp EXCEPT ![r] = rsp]
    /\ disk' = speech_to_text_finally(disk, temp_audio[r])
    /\ temp_audio' = [temp_audio EXCEPT ![r] = NoPath]
    /\ Goto(r, "done")

\* app.py 51-56: the temporary file is created and its name kept.
speech_to_text_open(r) ==
    /\ pc[r] = "stt_open"
    /\ \/ \E p \in mkstemp(disk) :
            /\ disk' = [disk EXCEPT ![p] = r]
            /\ temp_audio' = [temp_audio EXCEPT ![r] = p]
            /\ Goto(r, "stt_read")
            /\ UNCHANGED <<exc, resp>>
       \/ speech_to_text_return(r, IOError, speech_to_text_except(IOError))
    /\ UNCHANGED <<endpoint, inputs, text_input, full_prompt, response,
                   text_output, calls>>

\* app.py 57-58: await file.read(), write, flush; the file is then closed.
speech_to_text_read(r) ==
    /\ pc[r] = "stt_read"
    /\ \/ /\ Goto(r, "stt_recognize")
          /\ UNCHANGED <<disk, temp_audio, exc, resp>>
       \/ speech_to_text_return(r, IOError, speech_to_text_except(IOError))
    /\ UNCHANGED <<endpoint, inputs, text_input, full_prompt, response,
                   text_output, calls>>

\* app.py 61-81: the file is opened by name and recognized.
speech_to_text_recognize(r) ==
    /\ pc[r] = "stt_recognize"
    /\ IF ~exists(disk, temp_audio[r])
       THEN /\ speech_to_text_return(r, IOError, speech_to_text_except(IOError))
            /\ UNCHANGED <<text_input, calls>>
       ELSE \/ /\ speech_to_text_return(r, SttOtherError,
                                        speech_to_text_except(SttOtherError))
               /\ UNCHANGED <<text_input, calls>>
            \/ /\ calls' = [calls EXCEPT ![r] = Append(@, Call("stt", ""))]
               /\ \/ \E t \in RecognizedTexts :
                       /\ text_input' = [text_input EXCEPT ![r] = t]
                       /\ speech_to_text_return(r, NoExc, JSONResponse("text", t, 200))
                  \/ \E e \in {UnknownValueError, RequestError} :
                       /\ speech_to_text_return(r, e, speech_to_text_except(e))
                       /\ UNCHANGED text_input
    /\ UNCHANGED <<endpoint, inputs, full_prompt, response, text_output>>

----------------------------------------------------------------------------
(* process_audio, oldapp.py 20-68 *)

\* Variant of process_audio_finally that removes nothing.
process_audio_finally_leak(d, path) == d

\* oldapp.py 66-68: the disk after the finally clause; temp_audio is among
\* the local names once NamedTemporaryFile has returned.
process_audio_finally(d, path) ==
    IF path # NoPath /\ exists(d, path) THEN remove(d, path) ELSE d

\* oldapp.py 50-68: the response is built, the finally clause runs, the
\* handler returns and its local names are gone.
process_audio_return(r, e, rsp) ==
    /\ exc' = [exc EXCEPT ![r] = e]
    /\ resp' = [resp EXCEPT ![r] = rsp]
    /\ disk' = process_audio_finally(disk, temp_audio[r])
    /\ temp_audio' = [temp_audio EXCEPT ![r] = NoPath]
    /\ Goto(r, "done")

\* oldapp.py 25-26: the temporary file is created and bound to temp_audio.
process_audio_open(r) ==
    /\ pc[r] = "pa_open"
    /\ \/ \E p \in mkstemp(disk) :
            /\ disk' = [disk EXCEPT ![p] = r]
            /\ temp_audio' = [temp_audio EXCEPT ![r] = p]
            /\ Goto(r, "pa_read")
            /\ UNCHANGED <<exc, resp>>
       \/ process_audio_return(r, IOError, process_audio_except(IOError))
    /\ UNCHANGED <<endpoint, inputs, text_input, full_prompt, response,
                   text_output, calls>>

\* oldapp.py 27-28: await audio.read(), write, flush.
process_audio_read(r) ==
    /\ pc[r] = "pa_read"
    /\ \/ /\ Goto(r, "pa_recognize")
          /\ UNCHANGED <<disk, temp_audio, exc, resp>>
       \/ process_audio_return(r, IOError, process_audio_except(IOError))
    /\ UNCHANGED <<endpoint, inputs, text_input, full_prompt, response,
                   text_output, calls>>

\* Variant of process_audio_recognize that substitutes a fixed sentence for
\* the transcription when the recognizer fails, and goes on.
process_audio_recognize_substitute(r) ==
    /\ pc[r] = "pa_recognize"
    /\ calls' = [calls EXCEPT ![r] = Append(@, Call("stt", ""))]
    /\ \/ \E t \in RecognizedTexts :
            /\ text_input' = [text_input EXCEPT ![r] = t]
            /\ UNCHANGED exc
       \/ \E e \in {UnknownValueError, RequestError} :
            /\ exc' = [exc EXCEPT ![r] = e]
            /\ text_input' = [text_input EXCEPT ![r] =
                                "Sorry, I could not understand that."]
    /\ Goto(r, "pa_generate")
    /\ UNCHANGED <<endpoint, inputs, disk, temp_audio, full_prompt, response,
                   text_output, resp>>

\* oldapp.py 29-31 and 56-68: the file is opened by name and recognized.
process_audio_recognize(r) ==
    /\ pc[r] = "pa_recognize"
    /\ IF ~exists(disk, temp_audio[r])
       THEN /\ process_audio_return(r, IOError, process_audio_except(IOError))
            /\ UNCHANGED <<text_input, calls>>
       ELSE \/ /\ process_audio_return(r, SttOtherError,
                                       process_audio_except(SttOtherError))
               /\ UNCHANGED <<text_input, calls>>
            \/ /\ calls' = [calls EXCEPT ![r] = Append(@, Call("stt", ""))]
               /\ \/ \E t \in RecognizedTexts :
                       /\ text_input' = [text_input EXCEPT ![r] = t]
                       /\ Goto(r, "pa_generate")
                       /\ UNCHANGED <<disk, temp_audio, exc, resp>>
                  \/ \E e \in {UnknownValueError, RequestError} :
                       /\ process_audio_return(r, e, process_audio_except(e))
                       /\ UNCHANGED text_input
    /\ UNCHANGED <<endpoint, inputs, full_prompt, response, text_output>>

\* Variant of process_audio_generate that calls the provider again when
\* the call fails.
process_audio_generate_retry(r) ==
    /\ pc[r] = "pa_generate"
    /\ Len(calls[r]) < 4
    /\ LET contents == process_audio_contents(DefaultPrompt, text_input[r]) IN
       /\ full_prompt' = [full_prompt EXCEPT ![r] = contents]
       /\ calls' = [calls EXCEPT ![r] = Append(@, Call("gen", contents))]
    /\ \/ \E g \in GenResponses :
            /\ response' = [response EXCEPT ![r] = g]
            /\ text_output' = [text_output EXCEPT ![r] = getattr_text(g)]
            /\ Goto(r, "pa_synthesize")
            /\ UNCHANGED exc
       \/ /\ exc' = [exc EXCEPT ![r] = GenError]
          /\ UNCHANGED <<pc, response, text_output>>
    /\ UNCHANGED <<endpoint, inputs, disk, temp_audio, text_input, resp>>

\* Variant of process_audio_generate that speaks a fixed sentence when the
\* call fails.
process_audio_generate_fallback(r) ==
    /\ pc[r] = "pa_generate"
    /\ LET contents == process_audio_contents(DefaultPrompt, text_input[r]) IN
       /\ full_prompt' = [full_prompt EXCEPT ![r] = contents]
       /\ calls' = [calls EXCEPT ![r] = Append(@, Call("gen", contents))]
    /\ \/ \E g \in GenResponses :
            /\ response' = [response EXCEPT ![r] = g]
            /\ text_output' = [text_output EXCEPT ![r] = getattr_text(g)]
            /\ UNCHANGED exc
       \/ /\ exc' = [exc EXCEPT ![r] = GenError]
          /\ text_output' = [text_output EXCEPT ![r] = "Sorry, something went wrong."]
          /\ UNCHANGED response
    /\ Goto(r, "pa_synthesize")
    /\ UNCHANGED <<endpoint, inputs, disk, temp_audio, text_input, resp>>

\* oldapp.py 35-40 and 62-68: one call of the generation provider.
process_audio_generate(r) ==
    /\ pc[r] = "pa_generate"
    /\ LET contents == process_audio_contents(DefaultPrompt, text_input[r]) IN
       /\ full_prompt' = [full_prompt EXCEPT ![r] = contents]
       /\ calls' = [calls EXCEPT ![r] = Append(@, Call("gen", contents))]
    /\ \/ \E g \in GenResponses :
            /\ response' = [response EXCEPT ![r] = g]
            /\ text_output' = [text_output EXCEPT ![r] = getattr_text(g)]
            /\ Goto(r, "pa_synthesize")
            /\ UNCHANGED <<disk, temp_audio, exc, resp>>
       \/ /\ process_audio_return(r, GenError, process_audio_except(GenError))
          /\ UNCHANGED <<response, text_output>>
    /\ UNCHANGED <<endpoint, inputs, text_input>>

\* oldapp.py 44-68: one call of the synthesis provider, and the response.
process_audio_synthesize(r) ==
    /\ pc[r] = "pa_synthesize"
    /\ calls' = [calls EXCEPT ![r] = Append(@, Call("tts", text_output[r]))]
    /\ \/ process_audio_return(r, NoExc,
              Response(200, "audio/mpeg", "mp3", Mp3(text_output[r])))
       \/ process_audio_return(r, TtsError, process_audio_except(TtsError))
    /\ UNCHANGED <<endpoint, inputs, text_input, full_prompt, response, text_output>>

----------------------------------------------------------------------------
(* chat_completions, app.py 86-134 *)

\* app.py 93-107
chat_completions_prompt(r) ==
    /\ pc[r] = "chat_build"
    /\ full_prompt' = [full_prompt EXCEPT ![r] = chat_full_prompt(messages[r])]
    /\ Goto(r, "chat_generate")
    /\ UNCHANGED <<endpoint, inputs, disk, temp_audio, text_input, response,
                   text_output, calls, exc, resp>>

\* app.py 110-134
chat_completions_generate(r) ==
    /\ pc[r] = "chat_generate"
    /\ calls' = [calls EXCEPT ![r] = Append(@, Call("gen", full_prompt[r]))]
    /\ \/ \E g \in GenResponses :
            /\ response' = [response EXCEPT ![r] = g]
            /\ text_output' = [text_output EXCEPT ![r] = getattr_text(g)]
            /\ resp' = [resp EXCEPT ![r] = JSONResponse("choices", getattr_text(g), 200)]
            /\ UNCHANGED exc
       \/ /\ exc' = [exc EXCEPT ![r] = GenError]
          /\ resp' = [resp EXCEPT ![r] = chat_completions_except(GenError)]
          /\ UNCHANGED <<response, text_output>>
    /\ Goto(r, "done")
    /\ UNCHANGED <<endpoint, inputs, disk, temp_audio, text_input, full_prompt>>

----------------------------------------------------------------------------
(* text_to_speech, app.py 139-162 *)

text_to_speech(r) ==
    /\ pc[r] = "tts_synthesize"
    /\ calls' = [calls EXCEPT ![r] = Append(@, Call("tts", tts_input[r]))]
    /\ \/ /\ resp' = [resp EXCEPT ![r] =
                        Response(200, "audio/mpeg", "mp3", Mp3(tts_input[r]))]
          /\ UNCHANGED exc
       \/ /\ exc' = [exc EXCEPT ![r] = TtsError]
          /\ resp' = [resp EXCEPT ![r] = text_to_speech_except(TtsError)]
    /\ Goto(r, "done")
    /\ UNCHANGED <<endpoint, inputs, disk, locals>>

----------------------------------------------------------------------------
(* The service *)

Arrive(r) ==
    \/ ArriveTranscription(r)
    \/ ArriveProcessAudio(r)
    \/ ArriveChat(r)
    \/ ArriveSpeech(r)

speech_to_text(r) ==
    \/ speech_to_text_open(r)
    \/ speech_to_text_read(r)
    \/ speech_to_text_recognize(r)

process_audio(r) ==
    \/ process_audio_open(r)
    \/ process_audio_read(r)
    \/ process_audio_recognize(r)
    \/ process_audio_generate(r)
    \/ process_audio_synthesize(r)

chat_completions(r) ==
    \/ chat_completions_prompt(r)
    \/ chat_completions_generate(r)

Handler(r) ==
    \/ speech_to_text(r)
    \/ process_audio(r)
    \/ chat_completions(r)
    \/ text_to_speech(r)

Next == \E r \in Reqs : Arrive(r) \/ Handler(r)

Spec == Init /\ [][Next]_vars

----------------------------------------------------------------------------
(* The /process-audio service alone (oldapp.py), with the scheduling the   *)
(* event loop gives: a handler that can take a step eventually takes it,   *)
(* every awaited read and every provider call returning or raising.        *)

PipelineNext == \E r \in Reqs : ArriveProcessAudio(r) \/ process_audio(r)

PipelineSpec ==
    Init /\ [][PipelineNext]_vars /\ \A r \in Reqs : WF_vars(process_audio(r))

----------------------------------------------------------------------------
(* The chat endpoint alone (app.py), over every payload of at most MaxMsgs *)
(* messages.                                                               *)

ChatInit ==
    /\ pc = [r \in Reqs |-> IF r = 1 THEN "chat_build" ELSE "idle"]
    /\ endpoint = [r \in Reqs |-> IF r = 1 THEN "chat" ELSE "none"]
    /\ \E m \in SeqsUpTo(ChatMessage, MaxMsgs) :
          messages = [r \in Reqs |-> IF r = 1 THEN m ELSE <<>>]
    /\ audio_len = [r \in Reqs |-> 0]
    /\ tts_input = [r \in Reqs |-> ""]
    /\ disk = [p \in Paths |-> NoOwner]
    /\ temp_audio = [r \in Reqs |-> NoPath]
    /\ text_input = [r \in Reqs |-> ""]
    /\ full_prompt = [r \in Reqs |-> ""]
    /\ response = [r \in Reqs |-> NoResponse]
    /\ text_output = [r \in Reqs |-> ""]
    /\ calls = [r \in Reqs |-> <<>>]
    /\ exc = [r \in Reqs |-> NoExc]
    /\ resp = [r \in Reqs |-> NoResp]

ChatNext == \E r \in Reqs : chat_completions(r)

ChatSpec == ChatInit /\ [][ChatNext]_vars

----------------------------------------------------------------------------
(* Properties *)

Done(r) == pc[r] = "done"

\* The providers a request has called, in order.
Provs(r) == [i \in 1..Len(calls[r]) |-> calls[r][i].prov]

IsPrefix(s, t) == Len(s) <= Len(t) /\ \A i \in 1..Len(s) : s[i] = t[i]

FilesOf(r) == {p \in Paths : disk[p] = r}

UsesTempFile(r) == endpoint[r] \in {"transcriptions", "process-audio"}

\* C1: once a /v1/audio/transcriptions or /process-audio handler has
\* returned, on whatever path, no temporary file that the request created
\* is left on disk.
C1_NoTempFileAfterReturn ==
    \A r \in Reqs : UsesTempFile(r) /\ Done(r) => FilesOf(r) = {}

\* C1 witness: a transcription request that returned its text and a
\* /process-audio request that failed in generation, after its temporary
\* file had been written and read, have both returned.
C1_Witness ==
    \E r, q \in Reqs :
        /\ endpoint[r] = "transcriptions" /\ Done(r)
        /\ resp[r].status = 200 /\ Provs(r) = <<"stt">>
        /\ endpoint[q] = "process-audio" /\ Done(q)
        /\ exc[q] = GenError /\ FilesOf(r) \cup FilesOf(q) = {}

Pipeline == <<"stt", "gen", "tts">>

\* C2 (state part): the calls of a /process-audio request are a prefix of
\* transcription, generation, synthesis; generation is called with the
\* text transcription returned, synthesis with the text extracted from what
\* generation returned.
C2_Order(r) ==
    /\ IsPrefix(Provs(r), Pipeline)
    /\ Len(calls[r]) >= 2 =>
          /\ text_input[r] \in RecognizedTexts
          /\ calls[r][2].arg = process_audio_contents(DefaultPrompt, text_input[r])
    /\ Len(calls[r]) >= 3 =>
          /\ response[r] \in GenResponses
          /\ calls[r][3].arg = text_output[r]

\* C2: in /process-audio each provider is called at most once, in the order
\* transcription, generation, synthesis, each stage only after the previous
\* one returned; once a stage has failed no further call is made.
C2_SequentialNoRetry ==
    /\ [](\A r \in Reqs : endpoint[r] = "process-audio" => C2_Order(r))
    /\ [][\A r \in Reqs : endpoint[r] = "process-audio" /\ exc[r] # NoExc
                              => calls'[r] = calls[r]]_vars

\* C2 witness: a request that made all three calls, and one whose
\* generation call failed and that returned after two calls.
C2_Witness ==
    \E r, q \in Reqs :
        /\ endpoint[r] = "process-audio" /\ Provs(r) = Pipeline /\ Done(r)
        /\ endpoint[q] = "process-audio" /\ Provs(q) = <<"stt", "gen">>
        /\ exc[q] = GenError /\ Done(q)

\* A request holds a temporary file from its creation to its return.
HoldsTempFile(r) == temp_audio[r] # NoPath

\* C10: under any interleaving, two requests in flight never hold the same
\* temporary path, the file a request reads by name is the one it created,
\* and a file leaves the disk only when the request that created it
\* returns.
C10_OwnTempFileOnly ==
    /\ [](\A r \in Reqs : HoldsTempFile(r) =>
            /\ disk[temp_audio[r]] = r
            /\ \A q \in Reqs \ {r} : HoldsTempFile(q) => temp_audio[q] # temp_audio[r])
    /\ [][\A p \in Paths : disk[p] # NoOwner /\ disk'[p] # disk[p] =>
            /\ disk'[p] = NoOwner
            /\ pc[disk[p]] # "done"
            /\ pc'[disk[p]] = "done"]_vars

\* C10 witness: two requests in flight hold temporary files at once, one
\* of them about to read its file while the other is one step from its
\* finally clause.
C10_Witness ==
    \E r, q \in Reqs :
        /\ r # q /\ HoldsTempFile(r) /\ HoldsTempFile(q)
        /\ pc[r] \in {"stt_recognize", "pa_recognize"}
        /\ pc[q] = "pa_synthesize"

\* The prompt the claim describes: the content of the first system message
\* (or the default persona), then the separator, then the content of the
\* last message when the user sent it (or the placeholder).
SystemIndices(msgs) == {i \in 1..Len(msgs) : msgs[i].role = "system"}

ExpectedSystemPrompt(msgs) ==
    IF SystemIndices(msgs) = {}
    THEN "You are a helpful assistant."
    ELSE msgs[CHOOSE i \in SystemIndices(msgs) :
                 \A j \in SystemIndices(msgs) : i <= j].content

ExpectedUserText(msgs) ==
    IF Len(msgs) = 0 THEN "No user message found."
    ELSE IF msgs[Len(msgs)].role # "user" THEN "No user message found."
    ELSE msgs[Len(msgs)].content

ExpectedPrompt(msgs) ==
    ExpectedSystemPrompt(msgs) \o "\n\nUser: " \o ExpectedUserText(msgs)

TersePayload == <<Msg("system", "Be terse."), Msg("user", "Hi")>>

\* C3: for every chat payload the prompt handed to the generation provider
\* is the first system message (or the default persona), "\n\nUser: ", and
\* the last message if the user sent it (otherwise the placeholder); the
\* payload [system "Be terse.", user "Hi"] gives "Be terse.\n\nUser: Hi".
C3_ChatPrompt ==
    \A r \in Reqs : endpoint[r] = "chat" /\ calls[r] # <<>> =>
        /\ calls[r] = <<Call("gen", ExpectedPrompt(messages[r]))>>
        /\ messages[r] = TersePayload => calls[r][1].arg = "Be terse.\n\nUser: Hi"

\* C3 witness: the generator has been called for a payload with two system
\* messages and an earlier user message whose last message is not the user's.
C3_Witness ==
    \E r \in Reqs :
        /\ endpoint[r] = "chat" /\ calls[r] # <<>>
        /\ messages[r] = <<Msg("user", "Hi"), Msg("system", "Be terse."),
                           Msg("system", "Hi")>>
        /\ calls[r][1].arg = "Be terse.\n\nUser: No user message found."

IsJsonError(rsp) == rsp.media = "application/json" /\ rsp.kind = "error"

ErrorTexts == {GenError.msg, TtsError.msg, RequestError.msg, SttOtherError.msg,
               IOError.msg}

\* C4: when the generation or the synthesis provider raises, the response
\* is a 5xx JSON error and never audio; in /process-audio a failed
\* generation is never followed by a synthesis call and no error text is
\* ever handed to the synthesis provider; in /v1/chat/completions and
\* /v1/audio/speech an exception never gives a 200.
C4_GenerationSynthesisFailuresHalt ==
    \A r \in Reqs :
        /\ exc[r] \in {GenError, TtsError} =>
              /\ resp[r].status \in 500..599
              /\ IsJsonError(resp[r])
              /\ resp[r].media # "audio/mpeg"
        /\ exc[r] = GenError => "tts" \notin {calls[r][i].prov : i \in 1..Len(calls[r])}
        /\ \A i \in 1..Len(calls[r]) :
              calls[r][i].prov = "tts" => calls[r][i].arg \notin ErrorTexts
        /\ endpoint[r] \in {"chat", "speech"} /\ exc[r] # NoExc => resp[r].status # 200

\* C4 witness: generation has failed in /process-audio and in
\* /v1/chat/completions, or synthesis has failed in /v1/audio/speech and
\* generation in /process-audio.
C4_Witness ==
    \E r, q \in Reqs :
        /\ endpoint[r] = "process-audio" /\ exc[r] = GenError /\ Done(r)
        /\ \/ endpoint[q] = "chat" /\ exc[q] = GenError /\ Done(q)
           \/ endpoint[q] = "speech" /\ exc[q] = TtsError /\ Done(q)

NoLaterProvider(r) ==
    \A i \in 1..Len(calls[r]) : calls[r][i].prov \notin {"gen", "tts"}

\* C5 as stated: a request error of the recognizer gives a 503 response and
\* neither generation nor synthesis is called.
C5_Original503 ==
    \A r \in Reqs : UsesTempFile(r) /\ exc[r] = RequestError =>
        resp[r].status = 503 /\ NoLaterProvider(r)

\* C5 (amended): a request error of the recognizer short-circuits the
\* request with a 500 JSON error naming the recognition API error, and
\* neither generation nor synthesis is called.
C5_RequestErrorShortCircuits500 ==
    \A r \in Reqs : UsesTempFile(r) /\ exc[r] = RequestError =>
        /\ resp[r] = JSONResponse("error",
                        "Speech recognition API error: " \o RequestError.msg, 500)
        /\ NoLaterProvider(r)
        /\ Provs(r) = <<"stt">>

\* C5 witness: both handlers have returned after a recognizer request error.
C5_Witness ==
    \E r, q \in Reqs :
        /\ endpoint[r] = "transcriptions" /\ exc[r] = RequestError /\ Done(r)
        /\ endpoint[q] = "process-audio" /\ exc[q] = RequestError /\ Done(q)

\* C6: an upload of fewer than 16000 bytes is rejected with a 4xx before
\* any provider is called.
C6_ShortAudioRejected ==
    \A r \in Reqs : UsesTempFile(r) /\ audio_len[r] < 16000 =>
        /\ calls[r] = <<>>
        /\ Done(r) => resp[r].status \in 400..499

SttErrors == {UnknownValueError, RequestError, SttOtherError, IOError}

\* C7: both handlers halt and report on every recognition failure:
\* unintelligible audio gives 400 with a JSON error, a request error or any
\* other exception gives 500 with a JSON error, no placeholder text stands
\* in for the transcription, no later provider is called, and a 200 is
\* returned only when recognition produced text.
C7_SttHaltAndReport ==
    \A r \in Reqs : UsesTempFile(r) =>
        /\ exc[r] = UnknownValueError =>
              resp[r].status = 400 /\ IsJsonError(resp[r])
        /\ exc[r] \in SttErrors \ {UnknownValueError} =>
              resp[r].status = 500 /\ IsJsonError(resp[r])
        /\ exc[r] \in SttErrors =>
              /\ NoLaterProvider(r)
              /\ text_input[r] = ""
              /\ Done(r)
        /\ text_input[r] \in RecognizedTexts \cup {""}
        /\ \A i \in 1..Len(calls[r]) : calls[r][i].prov = "gen" =>
              \E t \in RecognizedTexts :
                  calls[r][i].arg = process_audio_contents(DefaultPrompt, t)
        /\ resp[r].status = 200 =>
              exc[r] = NoExc /\ text_input[r] \in RecognizedTexts

\* C7 witness: unintelligible audio in one handler and a request error in
\* the other have been reported.
C7_Witness ==
    \E r, q \in Reqs :
        /\ endpoint[r] = "transcriptions" /\ endpoint[q] = "process-audio"
        /\ Done(r) /\ Done(q)
        /\ {exc[r], exc[q]} = {UnknownValueError, RequestError}

Responded(r) ==
    /\ exc[r] = NoExc
    /\ Provs(r) = Pipeline
    /\ resp[r] = Response(200, "audio/mpeg", "mp3", Mp3(text_output[r]))

Failed(r) ==
    /\ exc[r] # NoExc
    /\ IsJsonError(resp[r])
    /\ resp[r].status \in {400, 500}
    /\ resp[r] = process_audio_except(exc[r])

\* C8: with every read and provider call returning or raising, every
\* /process-audio request that arrived eventually returns, having reached
\* exactly one of Responded (audio/mpeg body) and Failed (JSON error body);
\* once a stage has failed no further call is made and the error response
\* is the one returned.
C8_ReachesOneTerminalState ==
    /\ \A r \in Reqs : (pc[r] # "idle") ~> Done(r)
    /\ [](\A r \in Reqs : Done(r) =>
            (Responded(r) \/ Failed(r)) /\ ~(Responded(r) /\ Failed(r)))
    /\ [][\A r \in Reqs : exc[r] # NoExc =>
            /\ exc'[r] = exc[r]
            /\ calls'[r] = calls[r]
            /\ resp'[r] = resp[r]
            /\ pc'[r] = "done"]_vars

\* C8 witness: one request has returned audio and another has returned an
\* error after its synthesis call failed.
C8_Witness ==
    \E r, q \in Reqs :
        /\ Done(r) /\ Responded(r)
        /\ Done(q) /\ Failed(q) /\ exc[q] = TtsError

LacksText(r) == response[r] \in GenResponses /\ ~response[r].has_text

\* C9: when the response of the generation provider has no text attribute,
\* generation does not fail: the reply text is str(response); the chat
\* endpoint returns 200 with it as the assistant content, and
\* /process-audio hands it to the synthesis provider.
C9_StringifiedFallback ==
    \A r \in Reqs : LacksText(r) =>
        /\ text_output[r] = response[r].repr
        /\ exc[r] # GenError
        /\ endpoint[r] = "chat" =>
              /\ Done(r)
              /\ resp[r] = JSONResponse("choices", response[r].repr, 200)
        /\ endpoint[r] = "process-audio" =>
              \/ pc[r] = "pa_synthesize"
              \/ calls[r][3] = Call("tts", response[r].repr)

\* C9 witness: a chat request has answered 200 with the representation,
\* and a /process-audio request has returned it as speech.
C9_Witness ==
    \E r, q \in Reqs :
        /\ endpoint[r] = "chat" /\ LacksText(r) /\ resp[r].status = 200
        /\ endpoint[q] = "process-audio" /\ LacksText(q) /\ Done(q)
        /\ resp[q].val = Mp3(response[q].repr)

====
